---- MODULE Spec2Model ----
(***************************************************************************)
(* A model of pgextras.PgExtras (src/pgextras/__init__.py): the lazily     *)
(* opened connection and cursor, the two memoized capability flags, the    *)
(* statement normalisation of execute, the report methods and the          *)
(* with-block protocol.  The database driver and the server are the        *)
(* environment: every driver call may succeed or raise.                    *)
(***************************************************************************)
EXTENDS Integers, Sequences, FiniteSets, TLC

VARIABLES
    _pg_stat_statement,        \* "None" | "True"
    _cursor,                   \* 0 (None) or the index of a cursor in cursors
    _conn,                     \* 0 (None) or the index of a connection in conns
    _is_pg_at_least_nine_two,  \* "None" | "True" | "False"
    conns,                     \* driver: every connection ever created, "open" | "closed"
    cursors,                   \* driver: every cursor ever created, "open" | "closed"
    serverVersion,             \* server: the numbers of the banner "PostgreSQL a.b.c on ..."
    extAvailable,              \* server: pg_stat_statements is installed
    sent,                      \* statements handed to cursor.execute by the last call
    released,                  \* release calls made by the last call, in order
    probes,                    \* number of extension probes handed to cursor.execute so far
    scope,                     \* with-block: "none" | "inside" | "exited"
    pending,                   \* exception travelling out of the with-block, or "none"
    entered,                   \* how many connections and cursors existed at __enter__
    lastOp,                    \* the last method called
    lastArg,                   \* its argument: <<truncate>>, a statement text, or <<>>
    lastResult                 \* what it returned, or the exception it raised

vars == <<_pg_stat_statement, _cursor, _conn, _is_pg_at_least_nine_two, conns,
          cursors, serverVersion, extAvailable, sent, released, probes, scope,
          pending, entered, lastOp, lastArg, lastResult>>

(***************************************************************************)
(* Bounds of the model.                                                    *)
(***************************************************************************)
MaxMajor == 12
MaxMinor == 4
MaxPatch == 1
MaxConns == 2
MaxProbes == 2
MaxLen == 3

(***************************************************************************)
(* Python strings as sequences.  Version strings are sequences of code     *)
(* points, so that Python's ordering of str can be computed.               *)
(***************************************************************************)
Dot == 46
Zero == 48

RECURSIVE str(_)
\* str(n) for n >= 0: the decimal digits of n
str(n) == IF n < 10 THEN <<Zero + n>> ELSE str(n \div 10) \o <<Zero + (n % 10)>>

RECURSIVE join(_)
\* '.'.join(str(p) for p in parts)
join(parts) ==
    IF Len(parts) = 0 THEN <<>>
    ELSE IF Len(parts) = 1 THEN str(parts[1])
    ELSE str(parts[1]) \o <<Dot>> \o join(Tail(parts))

RECURSIVE StrGt(_, _)
\* Python's a > b on str: lexicographic on code points, a proper prefix is smaller
StrGt(a, b) ==
    IF Len(a) = 0 THEN FALSE
    ELSE IF Len(b) = 0 THEN TRUE
    ELSE IF a[1] # b[1] THEN a[1] > b[1]
    ELSE StrGt(Tail(a), Tail(b))

\* the literal '9.2.0'
NineTwo == <<57, Dot, 50, Dot, 48>>

\* regex.match(results[0].version) for "PostgreSQL (\d+\.\d+\.\d+) on": the banner
\* matches when three dotted numbers follow the product name
regex_match(banner) == Len(banner) = 3

\* matches.groups()[0]
groups0(banner) == join(banner)

(***************************************************************************)
(* Statement text as sequences of one-character strings.                   *)
(***************************************************************************)
Newline == "\n"
Whitespace == {" ", "\t", "\n", "\r"}
Alphabet == {"a", "b", " ", "\n", "\t"}

\* statement.replace('\n', '')
replace_newline(text) == SelectSeq(text, LAMBDA c : c # Newline)

RECURSIVE split(_, _)
\* text.split(): the maximal runs of non-whitespace characters, in order; word is
\* the run being read
split(text, word) ==
    IF Len(text) = 0 THEN (IF Len(word) = 0 THEN <<>> ELSE <<word>>)
    ELSE IF text[1] \in Whitespace
         THEN (IF Len(word) = 0 THEN <<>> ELSE <<word>>) \o split(Tail(text), <<>>)
         ELSE split(Tail(text), Append(word, text[1]))

RECURSIVE join_space(_)
\* ' '.join(words)
join_space(words) ==
    IF Len(words) = 0 THEN <<>>
    ELSE IF Len(words) = 1 THEN words[1]
    ELSE words[1] \o <<" ">> \o join_space(Tail(words))

\* lines 99-100 of execute: the text handed to the cursor
normalize(text) == join_space(split(replace_newline(text), <<>>))

(***************************************************************************)
(* Statements.  The templates of sql_constants are opaque: a statement is  *)
(* the template's name, the values formatted into it, and, for a statement *)
(* given as text, its characters.                                          *)
(***************************************************************************)
Stmt(tpl, args) == [tpl |-> tpl, args |-> args, text |-> <<>>]
Raw(text) == [tpl |-> "raw", args |-> <<>>, text |-> text]

(***************************************************************************)
(* The client object together with the driver's handles and the trace of   *)
(* the call in progress.  Methods are operators from such a record to a    *)
(* record [s, val, exc]: the state after, the value returned, and the      *)
(* exception raised ("none" when it returned).                             *)
(***************************************************************************)
Self ==
    [pg_stat |-> _pg_stat_statement, cursor |-> _cursor, conn |-> _conn,
     nine_two |-> _is_pg_at_least_nine_two, conns |-> conns, cursors |-> cursors,
     sent |-> <<>>, released |-> <<>>, probes |-> probes]

Ret(s, v) == [s |-> s, val |-> v, exc |-> "none"]
Raise(s, e) == [s |-> s, val |-> "none", exc |-> e]

\* What the driver does in one call: whether connect and conn.cursor() succeed and
\* which cursor.execute of the call the server rejects (0: none).
\* A call ends at the first exception, so at most one of them happens in a call.
Faults ==
    {f \in [connectOk : BOOLEAN, cursorOk : BOOLEAN, failAt : 0..2] :
        Cardinality({x \in {1, 2, 3} :
            \/ x = 1 /\ ~f.connectOk
            \/ x = 2 /\ ~f.cursorOk
            \/ x = 3 /\ f.failAt # 0}) <= 1}

\* What the driver does in one close_db_connection: whether cursor.close()
\* succeeds.
CloseFaults == [cursorCloseOk : BOOLEAN]

\* The cursor property, lines 28-38.
cursor(s, env) ==
    IF s.cursor = 0
    THEN IF ~env.connectOk THEN Raise(s, "OperationalError")
         ELSE LET s1 == [s EXCEPT !.conns = Append(@, "open"),
                                  !.conn = Len(s.conns) + 1]
              IN  IF ~env.cursorOk THEN Raise(s1, "InterfaceError")
                  ELSE Ret([s1 EXCEPT !.cursors = Append(@, "open"),
                                      !.cursor = Len(s1.cursors) + 1],
                           Len(s1.cursors) + 1)
    ELSE Ret(s, s.cursor)

\* The rows the server answers a statement with.
fetchall(sql) ==
    IF sql.tpl = "VERSION" THEN <<[version |-> serverVersion]>>
    ELSE IF sql.tpl = "PG_STAT_STATEMENT" THEN <<[available |-> extAvailable]>>
    ELSE <<[row |-> sql.tpl]>>

\* The extension probes counted in probes.
CountProbe(p, sql) == IF sql.tpl = "PG_STAT_STATEMENT" THEN p + 1 ELSE p

\* Sequencing: the rest of a method runs on the state and value of a call that
\* returned; an exception ends the method.
Then(r, rest(_, _)) == IF r.exc # "none" THEN r ELSE rest(r.s, r.val)

\* cursor.execute(sql) and cursor.fetchall(), lines 101-103.  The driver rejects a
\* statement on a closed cursor, and the statement the environment chose to fail.
cursor_execute(s, env, c, sql) ==
    IF s.cursors[c] = "closed" THEN Raise(s, "InterfaceError")
    ELSE IF env.failAt = Len(s.sent) THEN Raise(s, "ProgrammingError")
    ELSE Ret(s, fetchall(sql))

\* execute, lines 96-103.
execute(s, env, statement) ==
    Then(cursor(s, env), LAMBDA s1, c :
        cursor_execute([s1 EXCEPT !.sent = Append(@, [statement EXCEPT !.text = normalize(@)]),
                                  !.probes = CountProbe(@, statement)],
                       env, c, [statement EXCEPT !.text = normalize(@)]))

\* version, lines 259-262.
version(s, env) == execute(s, env, Stmt("VERSION", <<>>))

\* pg_stat_result returning False where the code raises.
pg_stat_result_returns_false(s, results) ==
    IF results[1].available THEN Ret([s EXCEPT !.pg_stat = "True"], "True")
    ELSE Ret(s, "False")

\* Lines 46-51: the probe's answer.
pg_stat_result(s, results) ==
    IF results[1].available THEN Ret([s EXCEPT !.pg_stat = "True"], "True")
    ELSE Raise(s, "EnvironmentError")

\* pg_stat_statement without the test of the memoized value.
pg_stat_statement_always_probes(s, env) ==
    Then(execute(s, env, Stmt("PG_STAT_STATEMENT", <<>>)), pg_stat_result)

\* The pg_stat_statement property, lines 40-53.
pg_stat_statement(s, env) ==
    IF s.pg_stat = "None"
    THEN Then(execute(s, env, Stmt("PG_STAT_STATEMENT", <<>>)), pg_stat_result)
    ELSE Ret(s, s.pg_stat)

\* Lines 62-69: the flag from the server's banner.
nine_two_result(s, results) ==
    IF ~regex_match(results[1].version) THEN Raise(s, "AttributeError")
    ELSE IF StrGt(groups0(results[1].version), NineTwo)
         THEN Ret([s EXCEPT !.nine_two = "True"], "True")
         ELSE Ret([s EXCEPT !.nine_two = "False"], "False")

\* is_pg_at_least_nine_two testing the memoized value for truth, not for None.
is_pg_at_least_nine_two_if_not(s, env) ==
    IF s.nine_two # "True" THEN Then(version(s, env), nine_two_result)
    ELSE Ret(s, s.nine_two)

\* The is_pg_at_least_nine_two property, lines 55-71.
is_pg_at_least_nine_two(s, env) ==
    IF s.nine_two = "None" THEN Then(version(s, env), nine_two_result)
    ELSE Ret(s, s.nine_two)

\* The query_column property, lines 73-79.
query_column(s, env) ==
    Then(is_pg_at_least_nine_two(s, env), LAMBDA s1, f :
        Ret(s1, IF f = "True" THEN "query" ELSE "current_query"))

\* The pid_column property, lines 81-87.
pid_column(s, env) ==
    Then(is_pg_at_least_nine_two(s, env), LAMBDA s1, f :
        Ret(s1, IF f = "True" THEN "pid" ELSE "procpid"))

\* close_db_connection releasing the cursor and forgetting the connection.
close_db_connection_cursor_only(s, env) ==
    IF s.cursor # 0
    THEN Ret([s EXCEPT !.released = Append(@, <<"cursor", s.cursor>>),
                       !.cursors[s.cursor] = "closed"], "None")
    ELSE Ret(s, "None")

\* close_db_connection, lines 89-94.  Releasing a cursor that is open may raise
\* (env); releasing a handle that is already closed does nothing.
close_db_connection(s, env) ==
    LET curFails == s.cursor # 0 /\ s.cursors[s.cursor] = "open" /\ ~env.cursorCloseOk
        s1 == IF s.cursor # 0
              THEN [s EXCEPT !.released = Append(@, <<"cursor", s.cursor>>),
                             !.cursors[s.cursor] = IF curFails THEN @ ELSE "closed"]
              ELSE s
    IN  IF curFails THEN Raise(s1, "Error")
        ELSE IF s1.conn # 0
             THEN Ret([s1 EXCEPT !.released = Append(@, <<"conn", s1.conn>>),
                                 !.conns[s1.conn] = "closed"], "None")
             ELSE Ret(s1, "None")

\* The reports that execute a fixed template: lines 105-115, 161-170, 188-225,
\* 237-241.
StaticReports ==
    [cache_hit |-> "CACHE_HIT", index_usage |-> "INDEX_USAGE",
     vacuum_stats |-> "VACUUM_STATS", bloat |-> "BLOAT", seq_scans |-> "SEQ_SCANS",
     unused_indexes |-> "UNUSED_INDEXES", total_table_size |-> "TOTAL_TABLE_SIZE",
     total_indexes_size |-> "TOTAL_INDEXES_SIZE", table_size |-> "TABLE_SIZE",
     index_size |-> "INDEX_SIZE", total_index_size |-> "TOTAL_INDEX_SIZE",
     table_indexes_size |-> "TABLE_INDEXES_SIZE"]

\* static_report behind the extension check that calls and outliers make.
static_report_needs_extension(s, env, name) ==
    IF s.pg_stat = "None"
    THEN Then(execute(s, env, Stmt("PG_STAT_STATEMENT", <<>>)), LAMBDA s1, rows :
             IF rows[1].available
             THEN execute([s1 EXCEPT !.pg_stat = "True"], env, Stmt(StaticReports[name], <<>>))
             ELSE Raise(s1, "EnvironmentError"))
    ELSE execute(s, env, Stmt(StaticReports[name], <<>>))

static_report(s, env, name) == execute(s, env, Stmt(StaticReports[name], <<>>))

\* calls, lines 117-132.
calls(s, env, truncate) ==
    Then(pg_stat_statement(s, env), LAMBDA s1, p :
        IF p = "True"
        THEN execute(s1, env, Stmt("CALLS", [select |-> IF truncate THEN "SELECT CASE"
                                                        ELSE "SELECT query,"]))
        ELSE Ret(s1, "None"))

\* outliers, lines 145-159.
outliers(s, env, truncate) ==
    Then(pg_stat_statement(s, env), LAMBDA s1, p :
        IF p = "True"
        THEN execute(s1, env, Stmt("OUTLIERS", [query |-> IF truncate THEN "CASE WHEN"
                                                          ELSE "query"]))
        ELSE Ret(s1, "None"))

\* blocking, lines 134-143: the keyword arguments are evaluated left to right.
blocking(s, env) ==
    Then(query_column(s, env), LAMBDA s1, q :
    Then(pid_column(s1, env), LAMBDA s2, p :
        execute(s2, env, Stmt("BLOCKING", [query_column |-> q, pid_column |-> p]))))

\* locks, lines 227-235.
locks(s, env) ==
    Then(pid_column(s, env), LAMBDA s1, p :
    Then(query_column(s1, env), LAMBDA s2, q :
        execute(s2, env, Stmt("LOCKS", [pid_column |-> p, query_column |-> q]))))

\* The idle predicate of long_running_queries and ps, lines 175-178 and 246-249.
idle_predicate(f) ==
    IF f = "True" THEN "AND state <> 'idle'" ELSE "AND current_query <> '<IDLE>'"

\* The body shared by long_running_queries (lines 172-186) and ps (lines 243-257).
idle_report(s, env, tpl) ==
    Then(is_pg_at_least_nine_two(s, env), LAMBDA s1, f :
    Then(pid_column(s1, env), LAMBDA s2, p :
    Then(query_column(s2, env), LAMBDA s3, q :
        execute(s3, env, Stmt(tpl, [pid_column |-> p, query_column |-> q,
                                    idle |-> idle_predicate(f)])))))

long_running_queries(s, env) == idle_report(s, env, "LONG_RUNNING_QUERIES")

ps(s, env) == idle_report(s, env, "PS")

(***************************************************************************)
(* The state machine: one action per public method.                        *)
(***************************************************************************)
Versions ==
    {<<a, b, c>> : a \in 8..MaxMajor, b \in 0..MaxMinor, c \in 0..MaxPatch}

\* Banners of servers that print two numbers only ("PostgreSQL 12.4 on ...").
ShortBanners == {<<10, 4>>}

\* The banners the life-cycle specification runs against.
SampleBanners == {<<9, 1, 3>>, <<9, 3, 1>>} \cup ShortBanners

\* __init__, lines 15-20, against some server.
InitWith(banners) ==
    /\ _pg_stat_statement = "None"
    /\ _cursor = 0
    /\ _conn = 0
    /\ _is_pg_at_least_nine_two = "None"
    /\ conns = <<>>
    /\ cursors = <<>>
    /\ serverVersion \in banners
    /\ extAvailable \in BOOLEAN
    /\ sent = <<>>
    /\ released = <<>>
    /\ probes = 0
    /\ scope = "none"
    /\ pending = "none"
    /\ entered = [conns |-> 0, cursors |-> 0]
    /\ lastOp = "__init__"
    /\ lastArg = <<>>
    /\ lastResult = "None"

Init == InitWith(SampleBanners)

\* The model stops a run that would exceed its bounds.
Bounded(r) ==
    /\ Len(r.s.conns) <= MaxConns
    /\ r.s.probes <= MaxProbes

\* A call of method op whose outcome is r; shown is the value it returns.  An
\* exception raised inside the with-block is either handled inside it or leaves it.
\* Runs with a with-block end at the end of the block.
Call(op, arg, r, shown) ==
    /\ pending = "none"
    /\ scope # "exited"
    /\ Bounded(r)
    /\ _pg_stat_statement' = r.s.pg_stat
    /\ _cursor' = r.s.cursor
    /\ _conn' = r.s.conn
    /\ _is_pg_at_least_nine_two' = r.s.nine_two
    /\ conns' = r.s.conns
    /\ cursors' = r.s.cursors
    /\ sent' = r.s.sent
    /\ released' = r.s.released
    /\ probes' = r.s.probes
    /\ lastOp' = op
    /\ lastArg' = arg
    /\ lastResult' = IF r.exc # "none" THEN r.exc ELSE shown
    /\ pending' \in IF r.exc # "none" /\ scope = "inside" THEN {"none", r.exc}
                    ELSE {"none"}
    /\ UNCHANGED <<serverVersion, extAvailable, scope, entered>>

StaticReport ==
    \E name \in DOMAIN StaticReports, env \in Faults :
        Call(name, <<>>, static_report(Self, env, name), "rows")

Version == \E env \in Faults : Call("version", <<>>, version(Self, env), "rows")

Calls ==
    \E env \in Faults, truncate \in BOOLEAN :
        LET r == calls(Self, env, truncate)
        IN  Call("calls", <<truncate>>, r, IF r.val = "None" THEN "None" ELSE "rows")

Outliers ==
    \E env \in Faults, truncate \in BOOLEAN :
        LET r == outliers(Self, env, truncate)
        IN  Call("outliers", <<truncate>>, r, IF r.val = "None" THEN "None" ELSE "rows")

Blocking == \E env \in Faults : Call("blocking", <<>>, blocking(Self, env), "rows")

Locks == \E env \in Faults : Call("locks", <<>>, locks(Self, env), "rows")

LongRunningQueries ==
    \E env \in Faults :
        Call("long_running_queries", <<>>, long_running_queries(Self, env), "rows")

Ps == \E env \in Faults : Call("ps", <<>>, ps(Self, env), "rows")

PgStatStatement ==
    \E env \in Faults :
        LET r == pg_stat_statement(Self, env) IN Call("pg_stat_statement", <<>>, r, r.val)

IsPgAtLeastNineTwo ==
    \E env \in Faults :
        LET r == is_pg_at_least_nine_two(Self, env)
        IN  Call("is_pg_at_least_nine_two", <<>>, r, r.val)

QueryColumn ==
    \E env \in Faults :
        LET r == query_column(Self, env) IN Call("query_column", <<>>, r, r.val)

PidColumn ==
    \E env \in Faults :
        LET r == pid_column(Self, env) IN Call("pid_column", <<>>, r, r.val)

CloseDbConnection ==
    \E env \in CloseFaults :
        LET r == close_db_connection(Self, env)
        IN  Call("close_db_connection", <<>>, r, "None")

\* __enter__, lines 22-23.
Enter ==
    /\ scope = "none"
    /\ scope' = "inside"
    /\ entered' = [conns |-> Len(conns), cursors |-> Len(cursors)]
    /\ lastOp' = "__enter__"
    /\ lastArg' = <<>>
    /\ lastResult' = "self"
    /\ sent' = <<>>
    /\ released' = <<>>
    /\ UNCHANGED <<_pg_stat_statement, _cursor, _conn, _is_pg_at_least_nine_two,
                   conns, cursors, serverVersion, extAvailable, probes, pending>>

\* __exit__, lines 25-26: control leaves the with-block, normally or with the
\* exception pending.  __exit__ returns None, so the pending exception goes on to
\* the caller unless close_db_connection raises one of its own.
Exit ==
    /\ scope = "inside"
    /\ \E env \in CloseFaults :
        LET r == close_db_connection(Self, env)
        IN  /\ conns' = r.s.conns
            /\ cursors' = r.s.cursors
            /\ released' = r.s.released
            /\ lastResult' = IF r.exc # "none" THEN r.exc
                             ELSE IF pending # "none" THEN pending ELSE "None"
    /\ scope' = "exited"
    /\ pending' = "none"
    /\ lastOp' = "__exit__"
    /\ lastArg' = <<>>
    /\ sent' = <<>>
    /\ UNCHANGED <<_pg_stat_statement, _cursor, _conn, _is_pg_at_least_nine_two,
                   serverVersion, extAvailable, probes, entered>>

\* execute called with a statement given as text.
Texts == UNION {[1..n -> Alphabet] : n \in 0..MaxLen}

Execute ==
    \E text \in Texts, env \in Faults :
        Call("execute", text, execute(Self, env, Raw(text)), "rows")

\* The client used without a with-block.
Next ==
    \/ StaticReport
    \/ Version
    \/ Calls
    \/ Outliers
    \/ Blocking
    \/ Locks
    \/ LongRunningQueries
    \/ Ps
    \/ PgStatStatement
    \/ IsPgAtLeastNineTwo
    \/ QueryColumn
    \/ PidColumn
    \/ CloseDbConnection

Spec == Init /\ [][Next]_vars

\* The client used in a with-block.
NextWith == Next \/ Enter \/ Exit

SpecWith == Init /\ [][NextWith]_vars

\* The version flag and the column names against every three-number banner.
InitVersion == InitWith(Versions)

NextVersion == IsPgAtLeastNineTwo \/ QueryColumn \/ PidColumn \/ Locks

SpecVersion == InitVersion /\ [][NextVersion]_vars

\* execute on statement texts.
NextExecute == Execute

InitExecute == InitWith({<<9, 1, 3>>}) /\ extAvailable

SpecExecute == InitExecute /\ [][NextExecute]_vars

(***************************************************************************)
(* Properties.                                                             *)
(***************************************************************************)
Threshold == <<9, 2, 0>>

\* v >= t on versions compared number by number.
AtLeast(v, t) ==
    \/ v[1] > t[1]
    \/ v[1] = t[1] /\ v[2] > t[2]
    \/ v[1] = t[1] /\ v[2] = t[2] /\ v[3] >= t[3]

DriverErrors == {"OperationalError", "InterfaceError", "ProgrammingError"}
ExtensionOps == {"calls", "outliers", "pg_stat_statement"}
FlagReaders ==
    {"is_pg_at_least_nine_two", "pid_column", "query_column", "blocking", "locks",
     "ps", "long_running_queries"}
Templates(stmts) == {stmts[i].tpl : i \in DOMAIN stmts}

\* C1: for a banner "PostgreSQL a.b.c on ...", the flag is true, pid_column is
\* 'pid' and query_column is 'query' exactly when a.b.c is at or above 9.2.0
\* (9.2.0 included); otherwise the flag is false and the columns are 'procpid'
\* and 'current_query'.
C1_FlagIsAtLeastNineTwo ==
    /\ _is_pg_at_least_nine_two # "None" =>
           (_is_pg_at_least_nine_two = "True" <=> AtLeast(serverVersion, Threshold))
    /\ lastOp = "pid_column" /\ lastResult \notin DriverErrors =>
           lastResult = IF AtLeast(serverVersion, Threshold) THEN "pid" ELSE "procpid"
    /\ lastOp = "query_column" /\ lastResult \notin DriverErrors =>
           lastResult = IF AtLeast(serverVersion, Threshold) THEN "query"
                        ELSE "current_query"

\* C2: a version whose major number has two or more digits (such as 12.4.0) is
\* classified as recent: the flag is true, pid_column is 'pid' and query_column is
\* 'query'.
C2_TwoDigitMajorIsRecent ==
    serverVersion[1] >= 10 =>
        /\ _is_pg_at_least_nine_two \in {"None", "True"}
        /\ lastOp = "pid_column" => lastResult \in DriverErrors \cup {"pid"}
        /\ lastOp = "query_column" => lastResult \in DriverErrors \cup {"query"}

\* C3: the text execute hands to the cursor is one line, has single spaces between
\* tokens and no leading or trailing whitespace, and has the tokens of the input:
\* tokens separated in the input by any whitespace stay separate.
C3_TokensPreserved ==
    lastOp = "execute" /\ sent # <<>> =>
        LET out == sent[1].text
        IN  /\ \A i \in DOMAIN out : out[i] \notin Whitespace \ {" "}
            /\ out # <<>> => out[1] # " " /\ out[Len(out)] # " "
            /\ \A i \in 1..(Len(out) - 1) : ~(out[i] = " " /\ out[i + 1] = " ")
            /\ split(out, <<>>) = split(lastArg, <<>>)

\* C4: at most one connection and at most one cursor are ever created for a
\* client, whatever calls and driver failures happen.
C4_OneConnectionOneCursor == Len(conns) <= 1 /\ Len(cursors) <= 1

\* C5: with the extension absent, calls and outliers (truncate or not) raise:
\* EnvironmentError once the probe has answered, never a return value, and the
\* CALLS / OUTLIERS statement is not handed to the cursor.
C5_AbsentExtensionRaises ==
    lastOp \in {"calls", "outliers"} /\ ~extAvailable =>
        /\ lastResult \in DriverErrors \cup {"EnvironmentError"}
        /\ Templates(sent) \subseteq {"PG_STAT_STATEMENT"}
        /\ sent # <<>> /\ lastResult \notin {"InterfaceError", "ProgrammingError"} =>
               lastResult = "EnvironmentError"

C5_Witness ==
    /\ lastOp = "calls" /\ lastArg = <<TRUE>> /\ ~extAvailable
    /\ lastResult = "EnvironmentError"
    /\ sent = <<Stmt("PG_STAT_STATEMENT", <<>>)>>

\* C6 as claimed: the extension probe is handed to the cursor at most once in the
\* client's life, whether the extension is present or absent.
C6_ProbedAtMostOnce == probes <= 1

\* C6 amended: the flag is memoized only when the probe finds the extension: a
\* call that finds it leaves the flag True, and from then on no call sends the
\* probe; while the extension is absent the flag stays unresolved and every call of
\* calls, outliers or pg_stat_statement that gets a cursor sends the probe again.
C6_MemoizedOnlyWhenPresent ==
    /\ [](lastOp \in ExtensionOps /\ lastResult \in {"True", "rows"} =>
              _pg_stat_statement = "True")
    /\ [][_pg_stat_statement = "True" =>
              /\ _pg_stat_statement' = "True"
              /\ probes' = probes]_vars
    /\ [](~extAvailable => _pg_stat_statement = "None")
    /\ [](lastOp \in ExtensionOps /\ ~extAvailable /\ _cursor # 0 =>
              sent = <<Stmt("PG_STAT_STATEMENT", <<>>)>>)

C6_Witness ==
    /\ lastOp = "outliers" /\ lastResult = "rows" /\ _pg_stat_statement = "True"
    /\ sent = <<Stmt("OUTLIERS", [query |-> "query"])>>
    /\ probes = 1

\* C7: once is_pg_at_least_nine_two has a value, reading it, pid_column or
\* query_column, or calling blocking, locks, ps or long_running_queries sends no
\* VERSION statement and leaves the value as it is, and a read returns that value;
\* the read that resolves it sends one VERSION statement.
C7_VersionFlagMemoized ==
    /\ [][_is_pg_at_least_nine_two # "None" /\ lastOp' \in FlagReaders =>
              /\ _is_pg_at_least_nine_two' = _is_pg_at_least_nine_two
              /\ "VERSION" \notin Templates(sent')
              /\ lastOp' = "is_pg_at_least_nine_two" =>
                     lastResult' = _is_pg_at_least_nine_two]_vars
    /\ [](lastOp = "is_pg_at_least_nine_two" /\ lastResult \in {"True", "False"} =>
              /\ _is_pg_at_least_nine_two = lastResult
              /\ sent \in {<<>>, <<Stmt("VERSION", <<>>)>>})

C7_Witness ==
    /\ lastOp = "is_pg_at_least_nine_two" /\ lastResult = "False"
    /\ sent = <<>>
    /\ _is_pg_at_least_nine_two = "False"

\* C8: a call other than calls, outliers and pg_stat_statement neither sends the
\* extension probe nor changes the memoized extension flag, so the flag is still
\* unresolved while only such calls have been made.
C8_OtherReportsDoNotProbe ==
    /\ [][lastOp' \notin ExtensionOps =>
              /\ _pg_stat_statement' = _pg_stat_statement
              /\ probes' = probes
              /\ "PG_STAT_STATEMENT" \notin Templates(sent')]_vars
    /\ [](probes = 0 => _pg_stat_statement = "None")

C8_Witness ==
    /\ lastOp = "bloat" /\ lastResult = "rows"
    /\ _is_pg_at_least_nine_two # "None"
    /\ _pg_stat_statement = "None" /\ probes = 0

\* The release calls close_db_connection makes on a client: the cursor, then the
\* connection, each if it exists.
ExpectedReleases ==
    (IF _cursor # 0 THEN <<<<"cursor", _cursor>>>> ELSE <<>>)
        \o (IF _conn # 0 THEN <<<<"conn", _conn>>>> ELSE <<>>)

\* C9: close_db_connection releases the cursor and then the connection when they
\* exist, raising only if the driver's release call raises; on a client that never
\* opened a connection it makes no release call, raises nothing and changes
\* nothing; and called again after it returned, it returns again.
C9_CloseIsSafe ==
    /\ [](lastOp = "close_db_connection" =>
              /\ _cursor = 0 /\ _conn = 0 => released = <<>> /\ lastResult = "None"
              /\ lastResult = "None" =>
                     /\ released = ExpectedReleases
                     /\ _cursor # 0 => cursors[_cursor] = "closed"
                     /\ _conn # 0 => conns[_conn] = "closed"
              /\ lastResult # "None" =>
                     /\ lastResult = "Error"
                     /\ released # <<>>
                     /\ released = <<<<"cursor", _cursor>>>>
                     /\ cursors[_cursor] = "open")
    /\ [][lastOp' = "close_db_connection" /\ _cursor = 0 /\ _conn = 0 =>
              UNCHANGED <<_pg_stat_statement, _cursor, _conn,
                          _is_pg_at_least_nine_two, conns, cursors, probes>>]_vars
    /\ [][/\ lastOp = "close_db_connection" /\ lastResult = "None"
          /\ lastOp' = "close_db_connection"
          => lastResult' = "None"]_vars

C9_Witness ==
    /\ lastOp = "close_db_connection" /\ lastResult = "None"
    /\ released = <<<<"cursor", 1>>, <<"conn", 1>>>>
    /\ cursors = <<"closed">> /\ conns = <<"closed">>

\* C10: when control has left the with-block, normally or with an exception, every
\* connection and every cursor opened inside the block has been released.
C10_ExitReleasesEverything ==
    lastOp = "__exit__" =>
        /\ \A i \in DOMAIN conns : i > entered.conns => conns[i] = "closed"
        /\ \A i \in DOMAIN cursors : i > entered.cursors => cursors[i] = "closed"

====
